---- MODULE Spec2Model ----
(***************************************************************************)
(* A model of anvio/sequence.py: the Read class (an alignment held as a    *)
(* run-length cigar with its query bases, reference bases and reference    *)
(* interval), its trim / __getitem__ / get_blocks methods, and the         *)
(* Coverage accumulator that sums the blocks of many reads.                *)
(***************************************************************************)
EXTENDS Integers, Sequences, FiniteSets, TLC

VARIABLES
    read,      \* the Read instance the caller holds (self)
    before,    \* the instance as it was when the last call was made
    last,      \* the last call: [op, a, b, raised]
    chain,     \* reference positions requested by the unbroken run of left trims ending in `last`
    ret,       \* what the last call returned (the blocks of get_blocks, else <<>>)
    original,  \* the instance the last __getitem__ was applied to, as its owner sees it now
    alias,     \* <<k>> when read.cigartuples is a view of original's array from index k on, else <<>>
    pc,        \* where Coverage.run stands: "new", "loop", "done" or "raised"
    call,      \* the arguments Coverage.run was called with
    window,    \* run's iterator, start and end once the defaults are filled in
    c,         \* run's local coverage array
    fetched,   \* the number of reads the iterator has yielded
    covering,  \* per contig position, the number of yielded reads with a block over it
    bam,       \* the reads of the bam file in file order, when the run is over a given file
    runs,      \* calls of run made on the Coverage instance
    coverage,  \* the Coverage instance: c (<<>> while None) and the contig's explicit_length
    args,      \* the arguments of the last call of get_list_of_outliers
    mask       \* the boolean array that call returned

readVars == <<read, before, last, chain, ret, original, alias>>
coverageVars == <<pc, call, window, c, fetched, covering, bam, runs, coverage>>
outlierVars == <<args, mask>>
vars == <<readVars, coverageVars, outlierVars>>

----------------------------------------------------------------------------
(* Bounds of the model *)

MaxOps == 3        \* operations in a constructed cigar
MaxTotal == 3      \* sum of the operation lengths of a constructed cigar
RefStart == 1      \* reference_start of the constructed reads
MaxReads == 2      \* reads the iterator yields in one run of Coverage
MaxValues == 3     \* observations in an array given to get_list_of_outliers
MaxValue == 4      \* the largest observation
MaxPositions == 6  \* positions of an array given to process_c
MaxDepth == 2      \* the largest depth of such an array
MaxRuns == 2       \* calls of run on one Coverage instance

----------------------------------------------------------------------------
(* anvio.constants.cigar_consumption: for every cigar operation code,      *)
(* whether it consumes the read (query) and the reference.                 *)

MATCH == 0         \* M: consumes read and reference
INSERT == 1        \* I: consumes the read only
DELETE == 2        \* D: consumes the reference only
PAD == 6           \* P: consumes neither

cigar_consumption ==
    << <<TRUE, TRUE>>, <<TRUE, FALSE>>, <<FALSE, TRUE>>, <<FALSE, TRUE>>,
       <<TRUE, FALSE>>, <<FALSE, FALSE>>, <<FALSE, FALSE>>, <<TRUE, TRUE>>,
       <<TRUE, TRUE>> >>

consumes_read(operation) == cigar_consumption[operation + 1][1]
consumes_ref(operation) == cigar_consumption[operation + 1][2]

\* one operation code of each consumption class
OpCodes == {MATCH, INSERT, DELETE, PAD}

----------------------------------------------------------------------------
(* Python / numpy slicing, as the code uses it *)

Min(a, b) == IF a < b THEN a ELSE b
Max(a, b) == IF a > b THEN a ELSE b

\* s[k:] for k >= 0
SliceFrom(s, k) == IF k >= Len(s) THEN << >> ELSE SubSeq(s, k + 1, Len(s))

\* s[:-k] for k >= 0; -0 is 0, so s[:-0] is s[:0], the empty array
SliceDropLast(s, k) ==
    IF k = 0 \/ k >= Len(s) THEN << >> ELSE SubSeq(s, 1, Len(s) - k)

\* s[::-1]
Reverse(s) == [i \in 1..Len(s) |-> s[Len(s) + 1 - i]]

\* an optional argument: << >> when None, else <<v>>
Optional(S) == {<< >>} \cup {<<v>> : v \in S}

\* Python's `not x` for x None or an int
Not(x) == x = << >> \/ x[1] = 0

----------------------------------------------------------------------------
(* Read.__init__: the attributes copied from the decoded alignment record. *)
(* The bases are labelled by their index in the record, so that two slices *)
(* of the same record are equal only when they hold the same bases.        *)

RECURSIVE SumLengths(_, _)
SumLengths(cigartuples, axis) ==
    IF cigartuples = << >> THEN 0
    ELSE (IF cigar_consumption[Head(cigartuples)[1] + 1][axis]
              THEN Head(cigartuples)[2] ELSE 0)
         + SumLengths(Tail(cigartuples), axis)

QueryLength(cigartuples) == SumLengths(cigartuples, 1)
ReferenceLength(cigartuples) == SumLengths(cigartuples, 2)

Read(cigartuples, reference_start) ==
    [cigartuples |-> cigartuples,
     query_sequence |-> [i \in 1..QueryLength(cigartuples) |-> i],
     reference_sequence |-> [i \in 1..ReferenceLength(cigartuples) |-> i],
     reference_start |-> reference_start,
     reference_end |-> reference_start + ReferenceLength(cigartuples)]

RECURSIVE TotalLength(_)
TotalLength(cigartuples) ==
    IF cigartuples = << >> THEN 0
    ELSE Head(cigartuples)[2] + TotalLength(Tail(cigartuples))

\* every cigar of 1..MaxOps operations of length >= 1 whose lengths sum to at most MaxTotal
CigarOp == OpCodes \X (1..MaxTotal)

Cigars ==
    {cigartuples \in UNION {[1..n -> CigarOp] : n \in 1..MaxOps} :
        TotalLength(cigartuples) <= MaxTotal}

\* the concrete reads the documentation and the specification speak of
InsertScenario == Read(<< <<MATCH, 3>>, <<INSERT, 2>>, <<MATCH, 4>> >>, 10)
DeleteScenario == Read(<< <<MATCH, 3>>, <<DELETE, 2>>, <<MATCH, 4>> >>, 10)

ScenarioReads == {Read(<< <<MATCH, 5>> >>, 100), InsertScenario, DeleteScenario}

Reads == {Read(cigartuples, RefStart) : cigartuples \in Cigars} \cup ScenarioReads

----------------------------------------------------------------------------
(* _trim: the walk over the cigar from the trimmed end.                    *)
(* TrimLoop is the for loop of lines 658-687 from iteration i on; it       *)
(* returns the loop's variables at the break or at the end of the cigar.   *)

\* TrimLoop without the collapse of the terminal gaps: the walk stops as soon
\* as trim_by reference positions are taken
RECURSIVE TrimLoopNoCollapse(_, _, _, _, _, _)
TrimLoopNoCollapse(cigartuples, trim_by, i, ref_positions_trimmed, read_positions_trimmed, terminate_next) ==
    IF i > Len(cigartuples) \/ terminate_next
    THEN [cigartuples |-> cigartuples, count |-> i - 1,
          ref_positions_trimmed |-> ref_positions_trimmed,
          read_positions_trimmed |-> read_positions_trimmed]
    ELSE
      LET operation == cigartuples[i][1]
          length == cigartuples[i][2]
          remaining == trim_by - ref_positions_trimmed
          ref_taken == IF consumes_ref(operation) THEN length ELSE 0
          read_taken == IF consumes_read(operation) THEN length ELSE 0
      IN
      IF consumes_ref(operation) /\ consumes_read(operation) /\ length > remaining
      THEN [cigartuples |-> [cigartuples EXCEPT ![i] = <<operation, length - remaining>>],
            count |-> i - 1,
            ref_positions_trimmed |-> ref_positions_trimmed + remaining,
            read_positions_trimmed |-> read_positions_trimmed + remaining]
      ELSE TrimLoopNoCollapse(cigartuples, trim_by, i + 1,
                              ref_positions_trimmed + ref_taken,
                              read_positions_trimmed + read_taken,
                              ref_positions_trimmed + ref_taken >= trim_by)

\* TrimLoop writing the trimmed amount, not what is left, into the boundary operation
RECURSIVE TrimLoopKeepsRemaining(_, _, _, _, _, _)
TrimLoopKeepsRemaining(cigartuples, trim_by, i, ref_positions_trimmed, read_positions_trimmed, terminate_next) ==
    IF i > Len(cigartuples)
    THEN [cigartuples |-> cigartuples, count |-> i - 1,
          ref_positions_trimmed |-> ref_positions_trimmed,
          read_positions_trimmed |-> read_positions_trimmed]
    ELSE
      LET operation == cigartuples[i][1]
          length == cigartuples[i][2]
          remaining == trim_by - ref_positions_trimmed
          ref_taken == IF consumes_ref(operation) THEN length ELSE 0
          read_taken == IF consumes_read(operation) THEN length ELSE 0
      IN
      IF consumes_ref(operation) /\ consumes_read(operation) /\ terminate_next
      THEN [cigartuples |-> cigartuples, count |-> i - 1,
            ref_positions_trimmed |-> ref_positions_trimmed,
            read_positions_trimmed |-> read_positions_trimmed]
      ELSE IF consumes_ref(operation) /\ consumes_read(operation) /\ length > remaining
      THEN [cigartuples |-> [cigartuples EXCEPT ![i] = <<operation, remaining>>],
            count |-> i - 1,
            ref_positions_trimmed |-> ref_positions_trimmed + remaining,
            read_positions_trimmed |-> read_positions_trimmed + remaining]
      ELSE TrimLoopKeepsRemaining(cigartuples, trim_by, i + 1,
                                  ref_positions_trimmed + ref_taken,
                                  read_positions_trimmed + read_taken,
                                  terminate_next \/ ref_positions_trimmed + ref_taken >= trim_by)

RECURSIVE TrimLoop(_, _, _, _, _, _)
TrimLoop(cigartuples, trim_by, i, ref_positions_trimmed, read_positions_trimmed, terminate_next) ==
    IF i > Len(cigartuples)
    THEN [cigartuples |-> cigartuples, count |-> i - 1,
          ref_positions_trimmed |-> ref_positions_trimmed,
          read_positions_trimmed |-> read_positions_trimmed]
    ELSE
      LET operation == cigartuples[i][1]
          length == cigartuples[i][2]
          remaining == trim_by - ref_positions_trimmed
          stop == [cigartuples |-> cigartuples, count |-> i - 1,
                   ref_positions_trimmed |-> ref_positions_trimmed,
                   read_positions_trimmed |-> read_positions_trimmed]
      IN
      IF consumes_ref(operation) /\ consumes_read(operation)
      THEN IF terminate_next THEN stop
           ELSE IF length > remaining
           THEN [cigartuples |-> [cigartuples EXCEPT ![i] = <<operation, length - remaining>>],
                 count |-> i - 1,
                 ref_positions_trimmed |-> ref_positions_trimmed + remaining,
                 read_positions_trimmed |-> read_positions_trimmed + remaining]
           ELSE TrimLoop(cigartuples, trim_by, i + 1,
                         ref_positions_trimmed + length,
                         read_positions_trimmed + length,
                         ref_positions_trimmed + length >= trim_by)
      ELSE IF consumes_ref(operation)
      THEN TrimLoop(cigartuples, trim_by, i + 1,
                    ref_positions_trimmed + length, read_positions_trimmed,
                    terminate_next \/ ref_positions_trimmed + length >= trim_by)
      ELSE IF consumes_read(operation)
      THEN TrimLoop(cigartuples, trim_by, i + 1,
                    ref_positions_trimmed, read_positions_trimmed + length,
                    terminate_next \/ ref_positions_trimmed >= trim_by)
      ELSE TrimLoop(cigartuples, trim_by, i + 1,
                    ref_positions_trimmed, read_positions_trimmed,
                    terminate_next \/ ref_positions_trimmed >= trim_by)

\* _trim moving the coordinates by trim_by, not by the positions the walk took
trim_jit_by_request(self, trim_by, side) ==
    LET walked == TrimLoop(IF side = 1 THEN Reverse(self.cigartuples) ELSE self.cigartuples,
                           trim_by, 1, 0, 0, FALSE)
        kept == SliceFrom(walked.cigartuples, walked.count)
    IN
    IF side = 1
    THEN [cigartuples |-> Reverse(kept),
          query_sequence |-> SliceDropLast(self.query_sequence, walked.read_positions_trimmed),
          reference_sequence |-> SliceDropLast(self.reference_sequence, walked.ref_positions_trimmed),
          reference_start |-> self.reference_start,
          reference_end |-> self.reference_end - trim_by]
    ELSE [cigartuples |-> kept,
          query_sequence |-> SliceFrom(self.query_sequence, walked.read_positions_trimmed),
          reference_sequence |-> SliceFrom(self.reference_sequence, walked.ref_positions_trimmed),
          reference_start |-> self.reference_start + trim_by,
          reference_end |-> self.reference_end]

\* _trim(cigartuples, cigar_consumption, query_sequence, reference_sequence,
\*       reference_start, reference_end, trim_by, side), side 0 = left, 1 = right
trim_jit(self, trim_by, side) ==
    LET walked == TrimLoop(IF side = 1 THEN Reverse(self.cigartuples) ELSE self.cigartuples,
                           trim_by, 1, 0, 0, FALSE)
        kept == SliceFrom(walked.cigartuples, walked.count)
    IN
    IF side = 1
    THEN [cigartuples |-> Reverse(kept),
          query_sequence |-> SliceDropLast(self.query_sequence, walked.read_positions_trimmed),
          reference_sequence |-> SliceDropLast(self.reference_sequence, walked.ref_positions_trimmed),
          reference_start |-> self.reference_start,
          reference_end |-> self.reference_end - walked.ref_positions_trimmed]
    ELSE [cigartuples |-> kept,
          query_sequence |-> SliceFrom(self.query_sequence, walked.read_positions_trimmed),
          reference_sequence |-> SliceFrom(self.reference_sequence, walked.ref_positions_trimmed),
          reference_start |-> self.reference_start + walked.ref_positions_trimmed,
          reference_end |-> self.reference_end]

----------------------------------------------------------------------------
(* Read.trim(trim_by, side)                                                *)

LEFT == 0
RIGHT == 1
Sides == {LEFT, RIGHT}

\* the guards without the one of line 330
TrimRaisesNegative(self, trim_by) == trim_by < 0

\* the guards of lines 327-332: the call raises ConfigError
TrimRaises(self, trim_by) ==
    trim_by < 0 \/ trim_by > self.reference_end - self.reference_start

\* the single-operation path leaving reference_start where it was
TrimSingleKeepsStart(self, trim_by, side) ==
    LET shortened == << <<self.cigartuples[1][1], self.cigartuples[1][2] - trim_by>> >>
    IN
    IF side = LEFT
    THEN [cigartuples |-> shortened,
          query_sequence |-> SliceFrom(self.query_sequence, trim_by),
          reference_sequence |-> SliceFrom(self.reference_sequence, trim_by),
          reference_start |-> self.reference_start,
          reference_end |-> self.reference_end]
    ELSE [cigartuples |-> shortened,
          query_sequence |-> SliceDropLast(self.query_sequence, trim_by),
          reference_sequence |-> SliceDropLast(self.reference_sequence, trim_by),
          reference_start |-> self.reference_start,
          reference_end |-> self.reference_end - trim_by]

\* lines 334-349: a cigar of one operation is shortened in place
TrimSingle(self, trim_by, side) ==
    LET shortened == << <<self.cigartuples[1][1], self.cigartuples[1][2] - trim_by>> >>
    IN
    IF side = LEFT
    THEN [cigartuples |-> shortened,
          query_sequence |-> SliceFrom(self.query_sequence, trim_by),
          reference_sequence |-> SliceFrom(self.reference_sequence, trim_by),
          reference_start |-> self.reference_start + trim_by,
          reference_end |-> self.reference_end]
    ELSE [cigartuples |-> shortened,
          query_sequence |-> SliceDropLast(self.query_sequence, trim_by),
          reference_sequence |-> SliceDropLast(self.reference_sequence, trim_by),
          reference_start |-> self.reference_start,
          reference_end |-> self.reference_end - trim_by]

\* the instance after a call of trim that does not raise
trim(self, trim_by, side) ==
    IF trim_by = 0 THEN self
    ELSE IF Len(self.cigartuples) = 1 THEN TrimSingle(self, trim_by, side)
    ELSE trim_jit(self, trim_by, side)

----------------------------------------------------------------------------
(* Read.__getitem__(slice(start, stop)): a copy trimmed on the left and    *)
(* then on the right.  A bound is << >> when omitted (None), else <<v>>.   *)

deepcopy(self) == self

\* copy.copy in place of copy.deepcopy: the copy holds the arrays of self
copy_aliases(self) == TRUE

\* whether the arrays of the copy of line 186 are the arrays of self:
\* copy.deepcopy copies them
deepcopy_aliases(self) == FALSE

\* the array self.cigartuples after the writes trim makes in it (line 337, and
\* line 670 of _trim), before trim binds the attribute to a slice of it
InPlace(self, trim_by, side) ==
    IF TrimRaises(self, trim_by) \/ trim_by = 0 THEN self.cigartuples
    ELSE IF Len(self.cigartuples) = 1 THEN TrimSingle(self, trim_by, side).cigartuples
    ELSE IF side = RIGHT
    THEN Reverse(TrimLoop(Reverse(self.cigartuples), trim_by, 1, 0, 0, FALSE).cigartuples)
    ELSE TrimLoop(self.cigartuples, trim_by, 1, 0, 0, FALSE).cigartuples

\* the operations trim drops from the front of the array (line 689, left side)
Dropped(self, trim_by, side) ==
    IF TrimRaises(self, trim_by) \/ trim_by = 0 \/ Len(self.cigartuples) = 1 \/ side = RIGHT
    THEN 0
    ELSE TrimLoop(self.cigartuples, trim_by, 1, 0, 0, FALSE).count

\* an instance whose array holds, from index k on, what a view of it was written to
WrittenThrough(owner, k, view) ==
    [owner EXCEPT !.cigartuples =
        [i \in 1..Len(owner.cigartuples) |->
            IF k < i /\ i <= k + Len(view) THEN view[i - k] ELSE owner.cigartuples[i]]]

\* the owner of the array as a trim of the read leaves it
OwnerAfterTrim(owner, k, self, trim_by, side) ==
    IF k = << >> THEN owner
    ELSE WrittenThrough(owner, k[1], InPlace(self, trim_by, side))

AliasAfterTrim(k, self, trim_by, side) ==
    IF k = << >> THEN << >> ELSE <<k[1] + Dropped(self, trim_by, side)>>

KeyStart(self, key) == IF key.start = << >> THEN self.reference_start ELSE key.start[1]
KeyStop(self, key) == IF key.stop = << >> THEN self.reference_end ELSE key.stop[1]

\* line 191 raises
GetItemRaisesLeft(self, key) ==
    TrimRaises(deepcopy(self), KeyStart(self, key) - self.reference_start)

\* the copy after line 191
GetItemLeft(self, key) ==
    trim(deepcopy(self), KeyStart(self, key) - self.reference_start, LEFT)

\* line 192 raises
GetItemRaisesRight(self, key) ==
    LET segment == GetItemLeft(self, key)
    IN TrimRaises(segment, segment.reference_end - KeyStop(self, key))

GetItemRaises(self, key) ==
    GetItemRaisesLeft(self, key) \/ GetItemRaisesRight(self, key)

\* __getitem__ without the trim on the right of line 192
getitem_left_only(self, key) == GetItemLeft(self, key)

\* the segment returned
getitem(self, key) ==
    LET segment == GetItemLeft(self, key)
    IN trim(segment, segment.reference_end - KeyStop(self, key), RIGHT)

----------------------------------------------------------------------------
(* Read.get_blocks                                                         *)

\* get_blocks without the advance of block_start past a deletion
RECURSIVE BlocksLoopNoSkip(_, _, _, _, _)
BlocksLoopNoSkip(cigartuples, i, blocks, block_start, block_length) ==
    IF i > Len(cigartuples)
    THEN IF block_length # 0
         THEN Append(blocks, <<block_start, block_start + block_length>>)
         ELSE blocks
    ELSE
      LET operation == cigartuples[i][1]
          length == cigartuples[i][2]
          closed == IF block_length # 0
                    THEN Append(blocks, <<block_start, block_start + block_length>>)
                    ELSE blocks
      IN
      IF consumes_read(operation) /\ consumes_ref(operation)
      THEN BlocksLoopNoSkip(cigartuples, i + 1, blocks, block_start, block_length + length)
      ELSE IF consumes_read(operation) \/ consumes_ref(operation)
      THEN BlocksLoopNoSkip(cigartuples, i + 1, closed, block_start + block_length, 0)
      ELSE BlocksLoopNoSkip(cigartuples, i + 1, blocks, block_start, block_length)

RECURSIVE BlocksLoop(_, _, _, _, _)
BlocksLoop(cigartuples, i, blocks, block_start, block_length) ==
    IF i > Len(cigartuples)
    THEN IF block_length # 0
         THEN Append(blocks, <<block_start, block_start + block_length>>)
         ELSE blocks
    ELSE
      LET operation == cigartuples[i][1]
          length == cigartuples[i][2]
          closed == IF block_length # 0
                    THEN Append(blocks, <<block_start, block_start + block_length>>)
                    ELSE blocks
      IN
      IF consumes_read(operation) /\ consumes_ref(operation)
      THEN BlocksLoop(cigartuples, i + 1, blocks, block_start, block_length + length)
      ELSE IF consumes_read(operation) /\ ~consumes_ref(operation)
      THEN BlocksLoop(cigartuples, i + 1, closed, block_start + block_length, 0)
      ELSE IF ~consumes_read(operation) /\ consumes_ref(operation)
      THEN BlocksLoop(cigartuples, i + 1, closed, block_start + block_length + length, 0)
      ELSE BlocksLoop(cigartuples, i + 1, blocks, block_start, block_length)

\* get_blocks joining the blocks that touch, as if an insertion did not end a block
RECURSIVE JoinAdjacent(_)
JoinAdjacent(blocks) ==
    IF Len(blocks) < 2 THEN blocks
    ELSE IF blocks[1][2] = blocks[2][1]
    THEN JoinAdjacent(<< <<blocks[1][1], blocks[2][2]>> >> \o SubSeq(blocks, 3, Len(blocks)))
    ELSE <<blocks[1]>> \o JoinAdjacent(Tail(blocks))

get_blocks_joined(self) ==
    JoinAdjacent(BlocksLoop(self.cigartuples, 1, << >>, self.reference_start, 0))

get_blocks(self) == BlocksLoop(self.cigartuples, 1, << >>, self.reference_start, 0)

----------------------------------------------------------------------------
(* The state machine: a read is constructed, then trimmed, spliced and     *)
(* asked for its blocks in any order.                                      *)

Call(op, a, b, raised) == [op |-> op, a |-> a, b |-> b, raised |-> raised]

\* no Read instance: the state of the read variables while Coverage runs
NoRead == Read(<< >>, 0)

\* Coverage(): c is None (<< >>), the summary fields are 0 and is_outlier is
\* not an attribute yet (<< >>); explicit_length is the contig's attribute
NewCoverage ==
    [c |-> << >>, explicit_length |-> << >>,
     min |-> 0, max |-> 0, std |-> <<0, 1>>, mean |-> <<0, 1>>, median |-> <<0, 2>>,
     detection |-> <<0, 1>>, mean_Q2Q3 |-> <<0, 1>>, is_outlier |-> << >>]

NoCall ==
    [contig_or_split |-> "none", start |-> << >>, end |-> << >>, max_coverage |-> << >>,
     skip_coverage_stats |-> FALSE]
NoWindow == [iterator |-> "none", start |-> 0, end |-> 0]

CoverageIdle ==
    /\ pc = "new"
    /\ call = NoCall
    /\ window = NoWindow
    /\ c = << >>
    /\ fetched = 0
    /\ covering = << >>
    /\ bam = << >>
    /\ runs = 0
    /\ coverage = NewCoverage

\* get_list_of_outliers not called yet
NoArgs == [values |-> << >>, threshold |-> << >>, zeros_are_outliers |-> FALSE, median |-> << >>]

OutlierIdle == args = NoArgs /\ mask = << >>

Init ==
    /\ read \in Reads
    /\ before = read
    /\ last = Call("init", << >>, << >>, FALSE)
    /\ chain = 0
    /\ ret = << >>
    /\ original = NoRead
    /\ alias = << >>
    /\ CoverageIdle
    /\ OutlierIdle

Span(self) == self.reference_end - self.reference_start

TrimAmounts(self) == (0 - 1)..(Span(self) + 1)

\* the amount the run of successful left trims ending with this call asked for
ChainAfter(trim_by, side, raised) ==
    IF side # LEFT \/ raised THEN 0
    ELSE IF last.op = "trim" /\ last.b = LEFT /\ ~last.raised THEN chain + trim_by
    ELSE trim_by

\* A ConfigError is not caught: the call that raises is the last of the run.
Trim(trim_by, side) ==
    /\ ~last.raised
    /\ before' = read
    /\ last' = Call("trim", trim_by, side, TrimRaises(read, trim_by))
    /\ read' = IF TrimRaises(read, trim_by) THEN read ELSE trim(read, trim_by, side)
    /\ chain' = ChainAfter(trim_by, side, TrimRaises(read, trim_by))
    /\ ret' = << >>
    /\ original' = OwnerAfterTrim(original, alias, read, trim_by, side)
    /\ alias' = AliasAfterTrim(alias, read, trim_by, side)
    /\ UNCHANGED <<coverageVars, outlierVars>>

Bounds(self) ==
    {<< >>} \cup {<<v>> : v \in (self.reference_start - 1)..(self.reference_end + 1)}

Keys(self) == [start : Bounds(self), stop : Bounds(self)]

\* the caller goes on with the segment returned; self is left as it was
GetItem(key) ==
    /\ ~last.raised
    /\ LET raisedLeft == GetItemRaisesLeft(read, key)
           raised == GetItemRaises(read, key)
           copied == IF deepcopy_aliases(read) THEN <<0>> ELSE << >>
           left == KeyStart(read, key) - read.reference_start
           segment == GetItemLeft(read, key)
           right == segment.reference_end - KeyStop(read, key)
       IN /\ before' = read
          /\ last' = Call("getitem", key.start, key.stop, raised)
          /\ read' = IF raised THEN read ELSE getitem(read, key)
          /\ chain' = 0
          /\ ret' = << >>
          /\ IF raisedLeft
             THEN original' = read /\ alias' = << >>
             ELSE /\ original' = OwnerAfterTrim(OwnerAfterTrim(read, copied, read, left, LEFT),
                                                AliasAfterTrim(copied, read, left, LEFT),
                                                segment, right, RIGHT)
                  /\ alias' = IF raised THEN << >>
                              ELSE AliasAfterTrim(copied, read, left, LEFT)
    /\ UNCHANGED <<coverageVars, outlierVars>>

GetBlocks ==
    /\ ~last.raised
    /\ last.op # "get_blocks"
    /\ before' = read
    /\ last' = Call("get_blocks", << >>, << >>, FALSE)
    /\ read' = read
    /\ chain' = 0
    /\ ret' = get_blocks(read)
    /\ UNCHANGED <<original, alias>>
    /\ UNCHANGED <<coverageVars, outlierVars>>

Next ==
    \/ \E trim_by \in TrimAmounts(read), side \in Sides : Trim(trim_by, side)
    \/ \E key \in Keys(read) : GetItem(key)
    \/ GetBlocks

Spec == Init /\ [][Next]_vars

----------------------------------------------------------------------------
(* get_list_of_outliers(values, threshold, zeros_are_outliers, median) for *)
(* a 1-D array of integers.  The medians of integers are halves: the model *)
(* holds 2 * median, 2 * diff and 4 * median_absolute_deviation, which are *)
(* integers, and a threshold as a number of ten-thousandths.               *)

Z == 6745                  \* 0.6745, in ten-thousandths
DefaultThreshold == 15000  \* 1.5, in ten-thousandths

Sorted(array) == SortSeq(array, LAMBDA a, b : a < b)

\* 2 * np.median(array) of a non-empty array
Median2(array) ==
    LET n == Len(array)
        sorted == Sorted(array)
    IN IF n % 2 = 1 THEN 2 * sorted[(n + 1) \div 2]
       ELSE sorted[n \div 2] + sorted[n \div 2 + 1]

Abs(x) == IF x < 0 THEN 0 - x ELSE x

\* line 562: twice the median the deviations are taken from
MedianUsed2(values, median) == IF Not(median) THEN Median2(values) ELSE median[1]

\* lines 564-565: 2 * diff
Diff2(values, median) ==
    [i \in 1..Len(values) |-> Abs(2 * values[i] - MedianUsed2(values, median))]

\* line 566: 4 * median_absolute_deviation
Mad4(values, median) == Median2(Diff2(values, median))

\* line 569 testing every observation instead of the first
AllAreZero(values) == \A i \in 1..Len(values) : values[i] = 0

\* line 569: values[0] == 0
FirstIsZero(values) == values[1] = 0

\* lines 577-578 with the comparison turned round
BelowThreshold(values, threshold, median) ==
    [i \in 1..Len(values) |->
        ~(2 * Z * Diff2(values, median)[i] > threshold * Mad4(values, median))]

\* lines 577-578: modified_z_score > threshold, where
\* modified_z_score = 0.6745 * diff / median_absolute_deviation
AboveThreshold(values, threshold, median) ==
    [i \in 1..Len(values) |->
        2 * Z * Diff2(values, median)[i] > threshold * Mad4(values, median)]

\* np.median of an empty array is nan, which is true and compares false: the
\* empty array is returned
get_list_of_outliers(values, threshold, zeros_are_outliers, median) ==
    LET t == IF threshold = << >> THEN DefaultThreshold ELSE threshold[1]
    IN
    IF values = << >> THEN << >>
    ELSE IF Mad4(values, median) = 0
    THEN [i \in 1..Len(values) |-> FirstIsZero(values)]
    ELSE IF ~zeros_are_outliers THEN AboveThreshold(values, t, median)
    ELSE [i \in 1..Len(values) |->
             IF values[i] = 0 THEN TRUE ELSE AboveThreshold(values, t, median)[i]]

----------------------------------------------------------------------------
(* Coverage.process_c(c): the summary fields of a coverage array of        *)
(* integers.  A fraction is held as <<numerator, denominator>>, not        *)
(* reduced; the median is a number of halves; std is held by its square,   *)
(* the mean of the squared deviations from the mean.                       *)

RECURSIVE SeqSum(_)
SeqSum(array) == IF array = << >> THEN 0 ELSE Head(array) + SeqSum(Tail(array))

\* np.amin and np.amax of a non-empty array
RECURSIVE SeqMin(_)
SeqMin(array) ==
    IF Len(array) = 1 THEN array[1] ELSE Min(array[1], SeqMin(Tail(array)))

RECURSIVE SeqMax(_)
SeqMax(array) ==
    IF Len(array) = 1 THEN array[1] ELSE Max(array[1], SeqMax(Tail(array)))

\* np.mean
Mean(array) == <<SeqSum(array), Len(array)>>

\* np.std, squared: (n * sum of squares - square of the sum) / n^2
Std2(array) ==
    <<Len(array) * SeqSum([i \in 1..Len(array) |-> array[i] * array[i]])
        - SeqSum(array) * SeqSum(array),
      Len(array) * Len(array)>>

\* line 509: np.sum(c > 0) / len(c)
Detection(array) == <<Cardinality({i \in 1..Len(array) : array[i] > 0}), Len(array)>>

\* lines 516-518 with the slice sorted_c[Q:]
Q2Q3LowOnly(array) == SliceFrom(Sorted(array), Len(array) \div 4)

\* lines 516-518: Q = int(c.size * 0.25), sorted_c[Q:-Q]
Q2Q3(array) ==
    LET sorted_c == Sorted(array)
        Q == Len(array) \div 4
    IN SliceDropLast(SliceFrom(sorted_c, Q), Q)

\* line 504: np.amin of an empty array raises ValueError
ProcessRaises(array) == array = << >>

\* lines 504-519 on a non-empty c: self with its summary fields assigned
process_c(self, array) ==
    [self EXCEPT
        !.min = SeqMin(array),
        !.max = SeqMax(array),
        !.median = <<Median2(array), 2>>,
        !.mean = Mean(array),
        !.std = Std2(array),
        !.detection = Detection(array),
        !.is_outlier = get_list_of_outliers(array, << >>, FALSE, <<Median2(array)>>),
        !.mean_Q2Q3 = IF Len(array) < 4 THEN Mean(array) ELSE Mean(Q2Q3(array))]

----------------------------------------------------------------------------
(* Coverage.run and Coverage._accurate_routine                             *)

\* bam.get_reference_length(contig_name): the contig holds every constructed read
ContigLength == RefStart + MaxTotal + 1

\* the reads of the bam file
BamReads == {Read(cigartuples, RefStart) : cigartuples \in Cigars}

\* contig_or_split: the contig's two splits, the contig, its name, or something else
ContigOrSplit ==
    { [kind |-> "Split", start |-> 0, end |-> ContigLength \div 2],
      [kind |-> "Split", start |-> ContigLength \div 2, end |-> ContigLength],
      [kind |-> "Contig", start |-> 0, end |-> ContigLength],
      [kind |-> "str", start |-> 0, end |-> ContigLength],
      [kind |-> "other", start |-> 0, end |-> 0] }

\* lines 440-455: the iterator and the window
RunWindow(contig_or_split, start, end) ==
    [iterator |-> IF start = << >> /\ end = << >> THEN "fetch" ELSE "fetch_and_trim",
     start |-> IF Not(start)
               THEN (IF contig_or_split.kind = "Split" THEN contig_or_split.start ELSE 0)
               ELSE start[1],
     end |-> IF Not(end) THEN contig_or_split.end ELSE end[1]]

\* line 458 raises ConfigError, line 461 raises ValueError (a negative dimension)
RunRaises(contig_or_split, start, end) ==
    \/ contig_or_split.kind = "other"
    \/ RunWindow(contig_or_split, start, end).end
         - RunWindow(contig_or_split, start, end).start < 0

\* np.zeros(n).astype(int)
zeros(n) == [i \in 1..n |-> 0]

\* a call of run on the instance, fresh or left by an earlier call
Run(contig_or_split, start, end, max_coverage, skip_coverage_stats) ==
    /\ pc \in {"new", "done", "raised"}
    /\ runs' = runs + 1
    /\ fetched' = 0
    /\ call' = [contig_or_split |-> contig_or_split, start |-> start, end |-> end,
                max_coverage |-> max_coverage,
                skip_coverage_stats |-> skip_coverage_stats]
    /\ IF RunRaises(contig_or_split, start, end)
       THEN /\ pc' = "raised"
            /\ UNCHANGED <<window, c, covering>>
       ELSE LET w == RunWindow(contig_or_split, start, end)
            IN /\ pc' = "loop"
               /\ window' = w
               /\ c' = zeros(w.end - w.start)
               /\ covering' = zeros(w.end - w.start)
    /\ UNCHANGED <<bam, coverage, readVars, outlierVars>>

\* bam.fetch(contig_name, start, end) yields the reads that overlap [start, end)
Overlaps(r, start, end) == r.reference_start < end /\ r.reference_end > start

\* bam.fetch_and_trim: the fetched read, trimmed where it overhangs [start, end)
FetchAndTrimLeft(r, start) ==
    IF start - r.reference_start > 0 THEN trim(r, start - r.reference_start, LEFT) ELSE r

FetchAndTrimRaises(r, start, end) ==
    LET trimmed == FetchAndTrimLeft(r, start)
    IN trimmed.reference_end - end > 0 /\ TrimRaises(trimmed, trimmed.reference_end - end)

fetch_and_trim(r, start, end) ==
    LET trimmed == FetchAndTrimLeft(r, start)
    IN IF trimmed.reference_end - end > 0
       THEN trim(trimmed, trimmed.reference_end - end, RIGHT)
       ELSE trimmed

\* line 498 with an assignment in place of the increment
AssignSlice(array, start, end) ==
    [i \in 1..Len(array) |->
        IF start <= i - 1 /\ i - 1 < end THEN 1 ELSE array[i]]

\* c[start:end] += 1 for 0 <= start <= end: the slice stops at the end of the array
AddSlice(array, start, end) ==
    [i \in 1..Len(array) |->
        IF start <= i - 1 /\ i - 1 < end THEN array[i] + 1 ELSE array[i]]

\* lines 497-498: the inner loop over the blocks of one read
RECURSIVE AddBlocks(_, _)
AddBlocks(array, blocks) ==
    IF blocks = << >> THEN array
    ELSE AddBlocks(AddSlice(array, Head(blocks)[1], Head(blocks)[2]), Tail(blocks))

\* whether one of the blocks lies over reference position p
Covers(blocks, p) ==
    \E k \in 1..Len(blocks) : blocks[k][1] <= p /\ p < blocks[k][2]

\* one iteration of the loop of line 496 over the read r of the bam file
Fetch(r) ==
    /\ pc = "loop"
    /\ fetched < MaxReads
    /\ Overlaps(r, window.start, window.end)
    /\ fetched' = fetched + 1
    /\ LET blocks == get_blocks(r)
       IN covering' = [i \in 1..Len(covering) |->
                         covering[i] + (IF Covers(blocks, window.start + i - 1) THEN 1 ELSE 0)]
    /\ IF window.iterator = "fetch_and_trim" /\ FetchAndTrimRaises(r, window.start, window.end)
       THEN pc' = "raised" /\ c' = c
       ELSE /\ pc' = pc
            /\ c' = AddBlocks(c, get_blocks(IF window.iterator = "fetch" THEN r
                                            ELSE fetch_and_trim(r, window.start, window.end)))
    /\ UNCHANGED <<call, window, bam, runs, coverage, readVars, outlierVars>>

\* lines 470-472: np.max of an empty array raises ValueError
CapRaises(array, max_coverage) == max_coverage # << >> /\ array = << >>

Cap(array, max_coverage) ==
    IF max_coverage # << >> /\ SeqMax(array) > max_coverage[1]
    THEN [i \in 1..Len(array) |-> Min(array[i], max_coverage[1])]
    ELSE array

\* lines 468-481, the iterator being exhausted: self.c is the array the routine
\* returns, capped in place; process_c reads it and assigns the summary fields
Finish ==
    /\ pc = "loop"
    /\ LET assigned == [coverage EXCEPT !.c = <<c>>]
           capped ==
               [assigned EXCEPT
                   !.c = <<Cap(c, call.max_coverage)>>,
                   !.explicit_length =
                       IF Len(c) # 0 /\ call.contig_or_split.kind # "str"
                       THEN <<Len(c)>> ELSE coverage.explicit_length]
       IN IF CapRaises(c, call.max_coverage)
          THEN pc' = "raised" /\ coverage' = assigned
          ELSE IF call.skip_coverage_stats
          THEN pc' = "done" /\ coverage' = capped
          ELSE IF ProcessRaises(capped.c[1])
          THEN pc' = "raised" /\ coverage' = capped
          ELSE pc' = "done" /\ coverage' = process_c(capped, capped.c[1])
    /\ UNCHANGED <<call, window, c, fetched, covering, bam, runs, readVars, outlierVars>>

Positions == 0..ContigLength

InitCoverage ==
    /\ read = NoRead
    /\ before = NoRead
    /\ last = Call("init", << >>, << >>, FALSE)
    /\ chain = 0
    /\ ret = << >>
    /\ original = NoRead
    /\ alias = << >>
    /\ CoverageIdle
    /\ OutlierIdle

NextCoverage ==
    \/ /\ runs = 0
       /\ \E contig_or_split \in ContigOrSplit,
             start \in Optional(Positions), end \in Optional(Positions),
             max_coverage \in Optional({1}), skip_coverage_stats \in BOOLEAN :
               Run(contig_or_split, start, end, max_coverage, skip_coverage_stats)
    \/ \E r \in BamReads : Fetch(r)
    \/ Finish

SpecCoverage == InitCoverage /\ [][NextCoverage]_vars

----------------------------------------------------------------------------
(* Coverage.process_c called on a coverage array, on a fresh instance      *)

DepthScenario == <<0, 0, 5, 5, 5, 5, 0>>

ProcessC ==
    /\ pc = "process"
    /\ IF ProcessRaises(c)
       THEN pc' = "raised" /\ coverage' = coverage
       ELSE pc' = "done" /\ coverage' = process_c(coverage, c)
    /\ UNCHANGED <<call, window, c, fetched, covering, bam, runs, readVars, outlierVars>>

InitProcess ==
    /\ read = NoRead
    /\ before = NoRead
    /\ last = Call("init", << >>, << >>, FALSE)
    /\ chain = 0
    /\ ret = << >>
    /\ original = NoRead
    /\ alias = << >>
    /\ pc = "process"
    /\ call = NoCall
    /\ window = NoWindow
    /\ \/ \E n \in 0..MaxPositions : c \in [1..n -> 0..MaxDepth]
       \/ c = DepthScenario
    /\ fetched = 0
    /\ covering = << >>
    /\ bam = << >>
    /\ runs = 0
    /\ coverage = NewCoverage
    /\ OutlierIdle

NextProcess == ProcessC

SpecProcess == InitProcess /\ [][NextProcess]_vars

----------------------------------------------------------------------------
(* Coverage.run over a given bam file: the reads of the file are fixed     *)
(* when the run starts and the iterator yields, in file order, those that  *)
(* overlap the window.                                                     *)

\* iterator(contig_name, start, end), as a list
Delivered(reads, w) == SelectSeq(reads, LAMBDA r : Overlaps(r, w.start, w.end))

\* _accurate_routine(c, bam, contig_name, start, end, iterator) over the reads
\* the iterator yields: the array returned, or raised when fetch_and_trim raises
RECURSIVE accurate_routine(_, _, _)
accurate_routine(array, reads, w) ==
    IF reads = << >> THEN [raised |-> FALSE, c |-> array]
    ELSE IF w.iterator = "fetch_and_trim" /\ FetchAndTrimRaises(Head(reads), w.start, w.end)
    THEN [raised |-> TRUE, c |-> array]
    ELSE accurate_routine(
             AddBlocks(array, get_blocks(IF w.iterator = "fetch" THEN Head(reads)
                                         ELSE fetch_and_trim(Head(reads), w.start, w.end))),
             Tail(reads), w)

\* the reads of the files: a match, then at most one more operation that
\* consumes the reference, of MaxTotal positions in all
FileReads ==
    {r \in BamReads :
        /\ Len(r.cigartuples) <= 2
        /\ r.cigartuples[1][1] = MATCH
        /\ \A i \in 1..Len(r.cigartuples) : r.cigartuples[i][1] \in {MATCH, DELETE}
        /\ TotalLength(r.cigartuples) = MaxTotal}

Files == UNION {[1..n -> FileReads] : n \in 0..MaxReads}

InitShards ==
    /\ read = NoRead
    /\ before = NoRead
    /\ last = Call("init", << >>, << >>, FALSE)
    /\ chain = 0
    /\ ret = << >>
    /\ original = NoRead
    /\ alias = << >>
    /\ pc = "new"
    /\ call = NoCall
    /\ window = NoWindow
    /\ c = << >>
    /\ fetched = 0
    /\ covering = << >>
    /\ bam \in Files
    /\ runs = 0
    /\ coverage = NewCoverage
    /\ OutlierIdle

NextShards ==
    \/ /\ runs = 0
       /\ \E contig_or_split \in ContigOrSplit,
             start \in Optional({ContigLength \div 2 - 1}),
             end \in Optional({ContigLength \div 2}), max_coverage \in Optional({1}) :
               Run(contig_or_split, start, end, max_coverage, FALSE)
    \/ /\ pc = "loop"
       /\ fetched < Len(Delivered(bam, window))
       /\ Fetch(Delivered(bam, window)[fetched + 1])
    \/ /\ pc = "loop"
       /\ fetched = Len(Delivered(bam, window))
       /\ Finish

SpecShards == InitShards /\ [][NextShards]_vars
----------------------------------------------------------------------------
(* Coverage.run called again and again on one instance, over the contig or *)
(* over a window of it that may be empty.                                  *)

NextRuns ==
    \/ /\ runs < MaxRuns
       /\ \E contig_or_split \in {co \in ContigOrSplit : co.kind \in {"Contig", "str"}},
             start \in Optional({RefStart}),
             end \in Optional({RefStart, RefStart + 2}),
             max_coverage \in Optional({1}), skip_coverage_stats \in BOOLEAN :
               Run(contig_or_split, start, end, max_coverage, skip_coverage_stats)
    \/ \E r \in FileReads : Fetch(r)
    \/ Finish

SpecRuns == InitCoverage /\ [][NextRuns]_vars

----------------------------------------------------------------------------
(* Read.get_aligned_sequence_and_reference_positions, which hands the      *)
(* operations, the query bases and reference_start to                      *)
(* _get_aligned_sequence_and_reference_positions.                          *)

\* array[a:b] for 0 <= a <= b: the slice stops at the end of the array
Slice(array, a, b) ==
    IF a >= Min(b, Len(array)) THEN << >> ELSE SubSeq(array, a + 1, Min(b, Len(array)))

\* array[at:at + n] = filling; filling has n entries when the read is consistent
SetSlice(array, at, filling) ==
    [i \in 1..Len(array) |->
        IF at < i /\ i <= at + Len(filling) THEN filling[i - at] ELSE array[i]]

\* np.arange(a, b)
arange(a, b) == [i \in 1..(b - a) |-> a + i - 1]

\* lines 592-596: the number of positions that consume both the read and the reference
RECURSIVE AlignedSize(_)
AlignedSize(cigartuples) ==
    IF cigartuples = << >> THEN 0
    ELSE (IF consumes_read(Head(cigartuples)[1]) /\ consumes_ref(Head(cigartuples)[1])
              THEN Head(cigartuples)[2] ELSE 0)
         + AlignedSize(Tail(cigartuples))

\* the loop of lines 604-618 not counting the positions of a deletion
RECURSIVE AlignedLoopNoSkip(_, _, _, _, _, _, _, _, _)
AlignedLoopNoSkip(cigartuples, query_sequence, reference_start, i, aligned_sequence, reference_positions, ref_consumed, read_consumed, num_mapped) ==
    IF i > Len(cigartuples) THEN <<aligned_sequence, reference_positions>>
    ELSE
      LET operation == cigartuples[i][1]
          length == cigartuples[i][2]
      IN
      IF consumes_read(operation) /\ consumes_ref(operation)
      THEN AlignedLoopNoSkip(cigartuples, query_sequence, reference_start, i + 1,
               SetSlice(aligned_sequence, num_mapped,
                        Slice(query_sequence, read_consumed, read_consumed + length)),
               SetSlice(reference_positions, num_mapped,
                        arange(ref_consumed + reference_start,
                               ref_consumed + reference_start + length)),
               ref_consumed + length, read_consumed + length, num_mapped + length)
      ELSE IF consumes_read(operation)
      THEN AlignedLoopNoSkip(cigartuples, query_sequence, reference_start, i + 1,
               aligned_sequence, reference_positions,
               ref_consumed, read_consumed + length, num_mapped)
      ELSE AlignedLoopNoSkip(cigartuples, query_sequence, reference_start, i + 1,
               aligned_sequence, reference_positions,
               ref_consumed, read_consumed, num_mapped)

\* the loop of lines 604-618 from operation i on
RECURSIVE AlignedLoop(_, _, _, _, _, _, _, _, _)
AlignedLoop(cigartuples, query_sequence, reference_start, i, aligned_sequence, reference_positions, ref_consumed, read_consumed, num_mapped) ==
    IF i > Len(cigartuples) THEN <<aligned_sequence, reference_positions>>
    ELSE
      LET operation == cigartuples[i][1]
          length == cigartuples[i][2]
      IN
      IF consumes_read(operation) /\ consumes_ref(operation)
      THEN AlignedLoop(cigartuples, query_sequence, reference_start, i + 1,
               SetSlice(aligned_sequence, num_mapped,
                        Slice(query_sequence, read_consumed, read_consumed + length)),
               SetSlice(reference_positions, num_mapped,
                        arange(ref_consumed + reference_start,
                               ref_consumed + reference_start + length)),
               ref_consumed + length, read_consumed + length, num_mapped + length)
      ELSE IF consumes_ref(operation)
      THEN AlignedLoop(cigartuples, query_sequence, reference_start, i + 1,
               aligned_sequence, reference_positions,
               ref_consumed + length, read_consumed, num_mapped)
      ELSE IF consumes_read(operation)
      THEN AlignedLoop(cigartuples, query_sequence, reference_start, i + 1,
               aligned_sequence, reference_positions,
               ref_consumed, read_consumed + length, num_mapped)
      ELSE AlignedLoop(cigartuples, query_sequence, reference_start, i + 1,
               aligned_sequence, reference_positions,
               ref_consumed, read_consumed, num_mapped)

get_aligned_sequence_and_reference_positions(self) ==
    AlignedLoop(self.cigartuples, self.query_sequence, self.reference_start, 1,
                zeros(AlignedSize(self.cigartuples)), zeros(AlignedSize(self.cigartuples)),
                0, 0, 0)

GetAligned ==
    /\ last.op = "init"
    /\ before' = read
    /\ last' = Call("get_aligned", << >>, << >>, FALSE)
    /\ ret' = get_aligned_sequence_and_reference_positions(read)
    /\ UNCHANGED <<read, chain, original, alias, coverageVars, outlierVars>>

NextAligned == GetAligned

\* a read as constructed, asked for its aligned bases and their positions
SpecAligned == Init /\ [][NextAligned]_vars

----------------------------------------------------------------------------
(* Read.__init__(read) on any decoded alignment record, consistent or not. *)
(* A base of the record's reference sequence is the label i, or -i where   *)
(* the record has it in lower case (a mismatch).                           *)

\* str.upper() on the labels
Upper(sequence) == [i \in 1..Len(sequence) |-> IF sequence[i] < 0 THEN 0 - sequence[i] ELSE sequence[i]]

\* __init__ working reference_end out from the operations instead of copying it
init_derived(record) ==
    [cigartuples |-> record.cigartuples,
     query_sequence |-> record.query_sequence,
     reference_sequence |-> Upper(record.reference_sequence),
     reference_start |-> record.reference_start,
     reference_end |-> record.reference_start + ReferenceLength(record.cigartuples)]

\* lines 132-136
init(record) ==
    [cigartuples |-> record.cigartuples,
     query_sequence |-> record.query_sequence,
     reference_sequence |-> Upper(record.reference_sequence),
     reference_start |-> record.reference_start,
     reference_end |-> record.reference_end]

\* lengths one off, or right
Near(n) == {m \in (n - 1)..(n + 1) : m >= 0}

\* a record: any operations, with sequences of q and r bases (the first
\* reference base in lower case or not) and an end e positions after the start
Record(cigartuples, q, r, e, lower) ==
    [cigartuples |-> cigartuples,
     query_sequence |-> [i \in 1..q |-> i],
     reference_sequence |-> [i \in 1..r |-> IF i = 1 /\ lower THEN 0 - i ELSE i],
     reference_start |-> RefStart,
     reference_end |-> RefStart + e]

Construct(record) ==
    /\ last.op = "new"
    /\ read' = init(record)
    /\ before' = NoRead
    /\ last' = Call("init", record, << >>, FALSE)
    /\ UNCHANGED <<chain, ret, original, alias, coverageVars, outlierVars>>

InitConstruct ==
    /\ read = NoRead
    /\ before = NoRead
    /\ last = Call("new", << >>, << >>, FALSE)
    /\ chain = 0
    /\ ret = << >>
    /\ original = NoRead
    /\ alias = << >>
    /\ CoverageIdle
    /\ OutlierIdle

\* the sequences and the end fit the operations, or are one off
NextConstruct ==
    /\ last.op = "new"
    /\ \E cigartuples \in Cigars :
           \E q \in Near(QueryLength(cigartuples)),
              r \in Near(ReferenceLength(cigartuples)),
              e \in Near(ReferenceLength(cigartuples)),
              lower \in BOOLEAN :
               Construct(Record(cigartuples, q, r, e, lower))

SpecConstruct == InitConstruct /\ [][NextConstruct]_vars

----------------------------------------------------------------------------
(* get_list_of_outliers called on its own                                 *)

Arrays == UNION {[1..n -> 0..MaxValue] : n \in 0..MaxValues}

\* thresholds of 0, 1 and 1.5, or none given
Thresholds == Optional({0, 10000, DefaultThreshold})

\* the caller passes the median when it has it
Medians(values) ==
    IF values = << >> THEN {<< >>} ELSE {<< >>, <<Median2(values)>>}

\* the function keeps nothing from one call to the next: a run is one call
Classify(values, threshold, zeros_are_outliers, median) ==
    /\ args = NoArgs
    /\ args' = [values |-> values, threshold |-> threshold,
                zeros_are_outliers |-> zeros_are_outliers, median |-> median]
    /\ mask' = get_list_of_outliers(values, threshold, zeros_are_outliers, median)
    /\ UNCHANGED <<readVars, coverageVars>>

InitOutliers ==
    /\ read = NoRead
    /\ before = NoRead
    /\ last = Call("init", << >>, << >>, FALSE)
    /\ chain = 0
    /\ ret = << >>
    /\ original = NoRead
    /\ alias = << >>
    /\ CoverageIdle
    /\ OutlierIdle

NextOutliers ==
    /\ args = NoArgs
    /\ \E values \in Arrays, threshold \in Thresholds, zeros_are_outliers \in BOOLEAN :
           \E median \in Medians(values) :
               Classify(values, threshold, zeros_are_outliers, median)

SpecOutliers == InitOutliers /\ [][NextOutliers]_vars

----------------------------------------------------------------------------
(* What the claims speak of *)

ConsumesBoth(op) == consumes_read(op[1]) /\ consumes_ref(op[1])
ReferenceOnly(op) == ~consumes_read(op[1]) /\ consumes_ref(op[1])
QueryOnly(op) == consumes_read(op[1]) /\ ~consumes_ref(op[1])

\* the first and the last operation consume both axes, or there is no operation
EndsMapped(self) ==
    \/ self.cigartuples = << >>
    \/ /\ ConsumesBoth(self.cigartuples[1])
       /\ ConsumesBoth(self.cigartuples[Len(self.cigartuples)])

QueryConsistent(self) ==
    Len(self.query_sequence) = QueryLength(self.cigartuples)

ReferenceConsistent(self) ==
    /\ self.reference_end - self.reference_start = ReferenceLength(self.cigartuples)
    /\ Len(self.reference_sequence) = ReferenceLength(self.cigartuples)

Consistent(self) == QueryConsistent(self) /\ ReferenceConsistent(self)

TrimReturned == last.op = "trim" /\ ~last.raised
GetItemCalled == last.op = "getitem"
GetBlocksReturned == last.op = "get_blocks"

\* reference positions the last trim took from its side
Removed ==
    IF last.b = LEFT THEN read.reference_start - before.reference_start
    ELSE before.reference_end - read.reference_end

\* total length of the operations of a cigar that consume the reference only
RECURSIVE ReferenceOnlyLength(_)
ReferenceOnlyLength(cigartuples) ==
    IF cigartuples = << >> THEN 0
    ELSE (IF ReferenceOnly(Head(cigartuples)) THEN Head(cigartuples)[2] ELSE 0)
         + ReferenceOnlyLength(Tail(cigartuples))

\* reference coordinate at which operation j of the cigar starts
RefAt(self, j) ==
    self.reference_start + ReferenceLength(SubSeq(self.cigartuples, 1, j - 1))

----------------------------------------------------------------------------
(* C1. As claimed: after any trim that returns (amount 0 included, either  *)
(* side) of a consistent read, the first and the last operation each       *)
(* consume both query and reference, or no operation is left.              *)
C1_AsClaimed ==
    (TrimReturned /\ Consistent(before)) => EndsMapped(read)

(* C1, amended: a trim that returns keeps the ends mapped: when the first  *)
(* and the last operation consumed both axes before the trim, the first    *)
(* and the last operation of the result do so too, or no operation is left.*)
C1_TrimKeepsEndsMapped ==
    (TrimReturned /\ EndsMapped(before)) => EndsMapped(read)

\* a trim whose cut fell next to one-axis operations, which it absorbed
C1_Witness ==
    /\ TrimReturned /\ last.a > 0 /\ EndsMapped(before)
    /\ Len(before.cigartuples) > 2
    /\ Len(read.cigartuples) = 1
    /\ Removed < Span(before)

(* C2. In every state reached by trims and splices of a read that was      *)
(* consistent at construction, reference_end - reference_start is the sum  *)
(* of the lengths of the reference-consuming operations, and so is the     *)
(* length of reference_sequence.                                           *)
C2_ReferenceConsistent == ReferenceConsistent(read)

\* a splice that returned, of a read an earlier call had already cut on the left
C2_Witness ==
    /\ GetItemCalled /\ ~last.raised
    /\ before.reference_sequence # << >> /\ before.reference_sequence[1] > 1
    /\ read # before
    /\ Len(read.cigartuples) > 1

(* C3. As claimed: in every state reached by trims and splices of a read   *)
(* that was consistent at construction, the length of query_sequence is    *)
(* the sum of the lengths of the query-consuming operations.               *)
C3_QueryConsistent == QueryConsistent(read)

(* C4. As claimed: a splice read[s:e] with s <= e never raises.            *)
C4_GetItemNeverRaises ==
    (GetItemCalled /\ KeyStart(before, [start |-> last.a]) <= KeyStop(before, [stop |-> last.b]))
        => ~last.raised

(* C5. As claimed: a splice read[s:e] with s <= e that meets the read's    *)
(* span returns a read whose reference_start is max(s, reference_start)    *)
(* and whose reference_end is min(e, reference_end).                       *)
C5_GetItemIsIntersection ==
    LET s == KeyStart(before, [start |-> last.a])
        e == KeyStop(before, [stop |-> last.b])
    IN (GetItemCalled /\ s <= e
          /\ Max(s, before.reference_start) <= Min(e, before.reference_end))
        => /\ ~last.raised
           /\ read.reference_start = Max(s, before.reference_start)
           /\ read.reference_end = Min(e, before.reference_end)

(* C6. As claimed: a trim by amount that returns moves reference_start (a  *)
(* left trim) or reference_end (a right trim) by exactly amount.           *)
C6_AsClaimed == TrimReturned => Removed = last.a

(* C6, amended: a trim by amount that returns takes at least amount        *)
(* reference positions from its side and none from the other; what it      *)
(* takes beyond amount is at most the length of the read's reference-only  *)
(* operations, so exactly amount when the read has none.                   *)
C6_TrimRemovesAtLeastAmount ==
    TrimReturned =>
        /\ Removed >= last.a
        /\ Removed <= last.a + ReferenceOnlyLength(before.cigartuples)
        /\ last.b = LEFT => read.reference_end = before.reference_end
        /\ last.b = RIGHT => read.reference_start = before.reference_start

\* a trim that absorbed a deletion next to its cut
C6_Witness ==
    /\ TrimReturned /\ last.a > 0 /\ last.b = LEFT
    /\ Removed > last.a
    /\ read.cigartuples # << >>

SameButEmptyOps(r1, r2) ==
    /\ SelectSeq(r1.cigartuples, LAMBDA op : op[2] # 0)
         = SelectSeq(r2.cigartuples, LAMBDA op : op[2] # 0)
    /\ r1.query_sequence = r2.query_sequence
    /\ r1.reference_sequence = r2.reference_sequence
    /\ r1.reference_start = r2.reference_start
    /\ r1.reference_end = r2.reference_end

\* this step is a left trim by b that follows a left trim by a which returned
TwoLeftTrims ==
    /\ last.op = "trim" /\ last.b = LEFT /\ ~last.raised /\ last.a >= 0
    /\ last'.op = "trim" /\ last'.b = LEFT /\ last'.a >= 0
    /\ before' = read
    /\ last.a + last'.a <= Span(before)

(* C7. As claimed: a left trim by a followed by a left trim by b, with     *)
(* a + b within the span, gives the read a single left trim by a + b gives.*)
C7_AsClaimed ==
    [][TwoLeftTrims =>
         /\ ~last'.raised
         /\ read' = trim(before, last.a + last'.a, LEFT)]_vars

(* C7, amended: when the left trim by a took exactly a reference positions *)
(* (it absorbed no reference-only operation), the left trim by b that      *)
(* follows returns, and gives the bases, reference_start and reference_end *)
(* of a single left trim by a + b, and its operations but for operations   *)
(* of length 0.                                                            *)
C7_LeftTrimsCompose ==
    [][(TwoLeftTrims /\ read.reference_start = before.reference_start + last.a) =>
         /\ ~last'.raised
         /\ SameButEmptyOps(read', trim(before, last.a + last'.a, LEFT))]_vars

\* two left trims in a row, each by at least one position, the second inside an operation
C7_Witness ==
    /\ TrimReturned /\ last.b = LEFT /\ last.a >= 1
    /\ chain > last.a
    /\ Removed = last.a
    /\ Len(read.cigartuples) > 1

NoTwoAdjacent(blocks) ==
    \A i \in 1..(Len(blocks) - 1) : blocks[i][2] # blocks[i + 1][1]

(* C8. As claimed: get_blocks never returns two consecutive blocks that    *)
(* are adjacent, and [(MATCH,3),(INSERT,2),(MATCH,4)] at 10 gives          *)
(* [(10,17)].                                                              *)
C8_AsClaimed ==
    GetBlocksReturned =>
        /\ NoTwoAdjacent(ret)
        /\ read = InsertScenario => ret = << <<10, 17>> >>

(* C8, amended: get_blocks closes the block at an insertion: two mapped    *)
(* runs separated by one query-only operation are reported as two adjacent *)
(* blocks, the second starting where the first ends, so                    *)
(* [(MATCH,3),(INSERT,2),(MATCH,4)] at 10 gives [(10,13),(13,17)];         *)
(* consecutive blocks never overlap.                                       *)
C8_BlocksSplitAtInsertion ==
    GetBlocksReturned =>
        /\ \A i \in 1..(Len(ret) - 1) : ret[i][2] <= ret[i + 1][1]
        /\ \A j \in 1..(Len(read.cigartuples) - 2) :
             (/\ ConsumesBoth(read.cigartuples[j]) /\ read.cigartuples[j][2] > 0
              /\ QueryOnly(read.cigartuples[j + 1])
              /\ ConsumesBoth(read.cigartuples[j + 2]))
             => \E i \in 1..(Len(ret) - 1) :
                   /\ ret[i][2] = RefAt(read, j + 1)
                   /\ ret[i + 1][1] = ret[i][2]
        /\ read = InsertScenario => ret = << <<10, 13>>, <<13, 17>> >>

C8_Witness ==
    GetBlocksReturned /\ read = InsertScenario /\ Len(ret) = 2

(* C9. get_blocks splits at a deletion: two mapped runs separated by one   *)
(* reference-only operation of length d are reported as two blocks, the    *)
(* second starting d positions after the end of the first, so              *)
(* [(MATCH,3),(DELETE,2),(MATCH,4)] at 10 gives [(10,13),(15,19)].         *)
C9_BlocksSplitAtDeletion ==
    GetBlocksReturned =>
        /\ \A j \in 1..(Len(read.cigartuples) - 2) :
             (/\ ConsumesBoth(read.cigartuples[j]) /\ read.cigartuples[j][2] > 0
              /\ ReferenceOnly(read.cigartuples[j + 1])
              /\ ConsumesBoth(read.cigartuples[j + 2]))
             => \E i \in 1..(Len(ret) - 1) :
                   /\ ret[i][2] = RefAt(read, j + 1)
                   /\ ret[i + 1][1] = ret[i][2] + read.cigartuples[j + 1][2]
        /\ read = DeleteScenario => ret = << <<10, 13>>, <<15, 19>> >>

C9_Witness ==
    GetBlocksReturned /\ read = DeleteScenario /\ Len(ret) = 2 /\ ret[2][1] = 15

(* C10. As claimed: when Coverage.run has returned, for every reference    *)
(* position p of the window [start, end) the entry of the coverage array   *)
(* at index p - start is the number of reads the iterator yielded that     *)
(* have a block over p.                                                    *)
C10_DepthIsBlockCount ==
    (pc = "done" /\ call.max_coverage = << >>) =>
        \A i \in 1..(window.end - window.start) : coverage.c[1][i] = covering[i]

\* the reads at the places p[1], p[2], ... of a list
Pick(reads, p) == [i \in 1..Len(p) |-> reads[p[i]]]

\* the places of a list that lie in S, in ascending order
RECURSIVE Places(_, _)
Places(n, S) ==
    IF n = 0 THEN << >>
    ELSE IF n \in S THEN Append(Places(n - 1, S), n) ELSE Places(n - 1, S)

\* what a pass of the routine over these reads of the file gives for the window
Pass(reads) == accurate_routine(zeros(window.end - window.start), Delivered(reads, window), window)

(* C11. The array Coverage.run produces does not depend on the order of    *)
(* the reads: every permutation of the file's reads gives the array of the *)
(* pass made (or raises as it did), and for every split of the reads into  *)
(* two shards the element-wise sum of the arrays of the two passes is the  *)
(* array of the single pass, which run then caps.                          *)
C11_OrderIndependent ==
    /\ pc = "done" =>
         /\ \A p \in Permutations(1..Len(bam)) :
               Pass(Pick(bam, p)) = [raised |-> FALSE, c |-> c]
         /\ \A S \in SUBSET (1..Len(bam)) :
               LET one == Pass(Pick(bam, Places(Len(bam), S)))
                   other == Pass(Pick(bam, Places(Len(bam), (1..Len(bam)) \ S)))
               IN /\ ~one.raised /\ ~other.raised
                  /\ c = [i \in 1..Len(c) |-> one.c[i] + other.c[i]]
         /\ coverage.c = <<Cap(c, call.max_coverage)>>
    /\ (pc = "raised" /\ window # NoWindow /\ c # << >>) =>
         \A p \in Permutations(1..Len(bam)) : Pass(Pick(bam, p)).raised

\* a finished run over two reads with different blocks that both count somewhere
C11_Witness ==
    /\ pc = "done" /\ Len(bam) = 2 /\ fetched = 2
    /\ get_blocks(bam[1]) # get_blocks(bam[2])
    /\ \E i \in 1..Len(c) : c[i] = 2
    /\ \E i \in 1..Len(c) : c[i] = 1

\* get_list_of_outliers has been called on a non-empty array
Classified == args.values # << >>

Threshold == IF args.threshold = << >> THEN DefaultThreshold ELSE args.threshold[1]

\* the modified z-score 0.6745 * |v - median| / MAD of observation i is
\* greater than the threshold (MAD not 0)
ScoreAbove(i) ==
    2 * Z * Abs(2 * args.values[i] - Median2(args.values))
        > Threshold * Mad4(args.values, << >>)

MadIsZero == Mad4(args.values, << >>) = 0

(* C12. As claimed: for a 1-D array with MAD not 0 and zeros_are_outliers  *)
(* false, the returned array is True exactly where the modified z-score is *)
(* not greater than the threshold.                                         *)
C12_AsClaimed ==
    (Classified /\ ~MadIsZero /\ ~args.zeros_are_outliers) =>
        \A i \in 1..Len(args.values) : mask[i] <=> ~ScoreAbove(i)

(* C12, amended: for a 1-D array with MAD not 0 and zeros_are_outliers     *)
(* false, the returned array has one entry per observation and is True     *)
(* exactly where the modified z-score is greater than the threshold (1.5   *)
(* when none is given) and False exactly where it is not: the observations *)
(* far from the median are the ones flagged.                               *)
C12_TrueAboveThreshold ==
    (Classified /\ ~MadIsZero /\ ~args.zeros_are_outliers) =>
        /\ Len(mask) = Len(args.values)
        /\ \A i \in 1..Len(args.values) : mask[i] <=> ScoreAbove(i)

\* a call with the default threshold that flags an observation and clears another
C12_Witness ==
    /\ Classified /\ ~MadIsZero /\ ~args.zeros_are_outliers /\ args.threshold = << >>
    /\ \E i, j \in 1..Len(mask) : mask[i] /\ ~mask[j]

(* C13. When the median absolute deviation is 0 the returned array is      *)
(* uniform and decided by the first observation alone: all True when it is *)
(* 0, all False otherwise, whatever the threshold and zeros_are_outliers.  *)
C13_UniformWhenMadIsZero ==
    (Classified /\ MadIsZero) =>
        /\ Len(mask) = Len(args.values)
        /\ \A i \in 1..Len(mask) : mask[i] <=> (args.values[1] = 0)

\* MAD is 0 for an array that is not uniform and starts with 0
C13_Witness ==
    /\ Classified /\ MadIsZero /\ args.values[1] = 0 /\ args.threshold # << >>
    /\ \E i \in 1..Len(args.values) : args.values[i] # 0
    /\ \A i \in 1..Len(mask) : mask[i]

(* C14. As claimed: with zeros_are_outliers true, for every array the      *)
(* returned array is True at every observation that is exactly 0, and at   *)
(* every other observation it holds what the call with zeros_are_outliers  *)
(* false returns there.                                                    *)
C14_ZerosForced ==
    (Classified /\ args.zeros_are_outliers) =>
        \A i \in 1..Len(args.values) :
            IF args.values[i] = 0 THEN mask[i]
            ELSE mask[i] = get_list_of_outliers(args.values, args.threshold, FALSE, args.median)[i]

\* the bounds s and e of the splice read[s:e] just made
SpliceStart == KeyStart(before, [start |-> last.a])
SpliceStop == KeyStop(before, [stop |-> last.b])

(* C15. For every splice read[s:e] with s <= e that returns, every block   *)
(* (b0, b1) get_blocks gives for the segment returned has                  *)
(* s <= b0 < b1 <= e.                                                      *)
C15_BlocksWithinSplice ==
    (GetItemCalled /\ ~last.raised /\ SpliceStart <= SpliceStop) =>
        \A k \in 1..Len(get_blocks(read)) :
            /\ SpliceStart <= get_blocks(read)[k][1]
            /\ get_blocks(read)[k][1] < get_blocks(read)[k][2]
            /\ get_blocks(read)[k][2] <= SpliceStop

\* a splice strictly inside the read that cut both ends and left two blocks
C15_Witness ==
    /\ GetItemCalled /\ ~last.raised
    /\ last.a # << >> /\ last.b # << >>
    /\ before.reference_start < SpliceStart /\ SpliceStop < before.reference_end
    /\ Len(get_blocks(read)) = 2

(* C16. As claimed: in every state reached by trims and splices, every     *)
(* operation of the read has a length of at least 1: an operation a trim   *)
(* consumes whole is removed.                                              *)
C16_NoEmptyOperation ==
    \A i \in 1..Len(read.cigartuples) : read.cigartuples[i][2] >= 1

(* C17. A trim by an amount that is negative or greater than               *)
(* reference_end - reference_start raises, a trim by any other amount does *)
(* not, and the trim that raises leaves the operations, the query bases,   *)
(* the reference bases, reference_start and reference_end as they were.    *)
C17_InvalidTrimLeavesRead ==
    last.op = "trim" =>
        /\ last.raised <=> (last.a < 0 \/ last.a > before.reference_end - before.reference_start)
        /\ last.raised => read = before

\* a trim by one position more than the span of a read of several operations
C17_Witness ==
    /\ last.op = "trim" /\ last.raised
    /\ last.a = Span(before) + 1
    /\ Len(read.cigartuples) > 1 /\ Span(read) > 0

(* C18. __getitem__ never modifies the read it is applied to: whether it   *)
(* returns or raises the read is as it was, and no later trim of the       *)
(* segment returned changes it.                                            *)
C18_GetItemLeavesSelf ==
    [][/\ last'.op = "getitem" => original' = read
       /\ (last'.op # "getitem" /\ original # NoRead) => original' = original]_vars

\* a trim that wrote a shortened operation in the array of a segment a splice returned
C18_Witness ==
    /\ TrimReturned /\ last.a > 0 /\ original # NoRead
    /\ Len(before.cigartuples) > 1
    /\ read.cigartuples # << >>
    /\ \A k \in 0..Len(before.cigartuples) : read.cigartuples # SliceFrom(before.cigartuples, k)
    /\ before # original /\ original.cigartuples # before.cigartuples

\* a record was given to __init__
Constructed == last.op = "init" /\ last.a # << >>

(* C19. As claimed: constructing a read from operations, bases and bounds  *)
(* that violate the length invariants raises, and no inconsistent read is  *)
(* ever created.                                                           *)
C19_AsClaimed ==
    Constructed =>
        /\ ~Consistent(last.a) => last.raised
        /\ ~last.raised => Consistent(read)

(* C19, amended: the construction never raises on account of the lengths:  *)
(* the operations, the query bases, reference_start and reference_end of   *)
(* the read are those of the record and its reference bases are the        *)
(* record's in upper case, unchecked, so the read satisfies the length     *)
(* invariants exactly when the record does.                                *)
C19_ConstructCopiesUnchecked ==
    Constructed =>
        /\ ~last.raised
        /\ read.cigartuples = last.a.cigartuples
        /\ read.query_sequence = last.a.query_sequence
        /\ read.reference_sequence = Upper(last.a.reference_sequence)
        /\ read.reference_start = last.a.reference_start
        /\ read.reference_end = last.a.reference_end
        /\ Consistent(read) <=> Consistent(last.a)

\* a read made from a record whose query is short and whose end is off
C19_Witness ==
    /\ Constructed
    /\ ~QueryConsistent(read) /\ ~ReferenceConsistent(read)
    /\ Len(read.reference_sequence) = ReferenceLength(read.cigartuples)
    /\ last.a.reference_sequence # read.reference_sequence

GetAlignedReturned == last.op = "get_aligned"

\* index of the first query base of operation j
QueryAt(self, j) == QueryLength(SubSeq(self.cigartuples, 1, j - 1))

\* number of positions consumed by both axes before operation j
BothBefore(self, j) ==
    QueryLength(SubSeq(SelectSeq(SubSeq(self.cigartuples, 1, j - 1), ConsumesBoth), 1,
                       Len(SelectSeq(SubSeq(self.cigartuples, 1, j - 1), ConsumesBoth))))

Processed == pc = "done" /\ call = NoCall

FracEq(a, b) == a[1] * b[2] = b[1] * a[2]

\* the array without the first occurrence of v
RECURSIVE RemoveOne(_, _)
RemoveOne(array, v) ==
    IF array = << >> THEN << >>
    ELSE IF Head(array) = v THEN Tail(array)
    ELSE <<Head(array)>> \o RemoveOne(Tail(array), v)

\* the array without its k lowest and its k highest values
RECURSIVE DropExtremes(_, _)
DropExtremes(array, k) ==
    IF k = 0 THEN array
    ELSE DropExtremes(RemoveOne(RemoveOne(array, SeqMin(array)),
                                SeqMax(RemoveOne(array, SeqMin(array)))), k - 1)

(* C21. For a coverage array of n positions that process_c has summarised, *)
(* mean_Q2Q3 is the mean of the array when n < 4, and otherwise the mean   *)
(* of the n - 2 * floor(n / 4) >= 1 values left when the floor(n / 4)      *)
(* lowest and the floor(n / 4) highest are removed; for [0,0,5,5,5,5,0]    *)
(* one value is dropped from each end (the mean of the rest is 3) and      *)
(* detection is 4/7.                                                       *)
C21_MeanOfMiddle ==
    Processed =>
        LET n == Len(c)
            kept == DropExtremes(c, n \div 4)
        IN /\ n < 4 => FracEq(coverage.mean_Q2Q3, <<SeqSum(c), n>>)
           /\ n >= 4 =>
                 /\ Len(kept) = n - 2 * (n \div 4)
                 /\ Len(kept) >= 1
                 /\ FracEq(coverage.mean_Q2Q3, <<SeqSum(kept), Len(kept)>>)
           /\ c = DepthScenario =>
                 /\ Len(kept) = 5
                 /\ FracEq(coverage.mean_Q2Q3, <<3, 1>>)
                 /\ FracEq(coverage.detection, <<4, 7>>)

\* an array of 5 positions or more whose trimmed mean is not its mean
C21_Witness ==
    /\ Processed
    /\ Len(c) >= 5
    /\ Len(c) % 4 # 0
    /\ ~FracEq(coverage.mean_Q2Q3, coverage.mean)

\* run was called with a start and an end, 0 <= start <= end, on a Split, a
\* Contig or a contig name
ExplicitWindow ==
    /\ runs >= 1
    /\ call.contig_or_split.kind \in {"Split", "Contig", "str"}
    /\ call.start # << >>
    /\ call.end # << >>
    /\ 0 <= call.start[1]
    /\ call.start[1] <= call.end[1]

\* the call raised before the loop over the reads
RunRaised == pc = "raised" /\ fetched = 0 /\ coverage.c = << >>

(* C22. As claimed: run called with a start and an end, 0 <= start <= end, *)
(* on a Split, a Contig or a contig name covers the window [start, end) of *)
(* the contig: it allocates an array of end - start entries and fetches    *)
(* the reads of [start, end), also when start is 0 on a Split that does    *)
(* not start at 0 and when end is 0.                                       *)
C22_WindowAsGiven ==
    ExplicitWindow =>
        /\ ~RunRaised
        /\ window.start = call.start[1]
        /\ window.end = call.end[1]
        /\ Len(c) = call.end[1] - call.start[1]

\* the operations of a read, from the side a trim cuts
FromSide(self, side) ==
    IF side = LEFT THEN self.cigartuples ELSE Reverse(self.cigartuples)

\* a trim by an amount above 0 that returned, of a read of several operations
TrimOfSeveral == TrimReturned /\ last.a > 0 /\ Len(before.cigartuples) > 1

(* C23. After a trim by amount > 0 that returns, of a read with more than  *)
(* one operation, the operation now at the trimmed end consumes both query *)
(* and reference, or no operation is left: what remains is a tail of the   *)
(* operations (its first one shortened where the cut fell inside it), so   *)
(* every reference-only, query-only or non-consuming operation next to the *)
(* cut is removed; the reference bases and the coordinate of that side     *)
(* lose the reference length of what was removed, at least amount, and the *)
(* query bases lose the query length removed.                              *)
C23_TrimmedEndMapped ==
    TrimOfSeveral =>
        LET B == FromSide(before, last.b)
            R == FromSide(read, last.b)
            gone == Len(B) - Len(R)
            dr == ReferenceLength(B) - ReferenceLength(R)
            dq == QueryLength(B) - QueryLength(R)
        IN /\ R = << >> \/ ConsumesBoth(R[1])
           /\ gone >= 0
           /\ \A j \in 2..Len(R) : R[j] = B[gone + j]
           /\ R # << >> =>
                 /\ R[1][1] = B[gone + 1][1]
                 /\ 1 <= R[1][2]
                 /\ R[1][2] <= B[gone + 1][2]
           /\ dr >= last.a
           /\ Removed = dr
           /\ Len(before.reference_sequence) - Len(read.reference_sequence) = dr
           /\ IF last.b = LEFT THEN read.reference_end = before.reference_end
              ELSE read.reference_start = before.reference_start
           /\ (QueryConsistent(before) /\ dq > 0) =>
                 Len(before.query_sequence) - Len(read.query_sequence) = dq

\* a cut inside the read, at the end of a both-axes operation that a query-only
\* operation follows: both are removed and a both-axes operation is left
C23_Witness ==
    /\ TrimOfSeveral
    /\ QueryConsistent(before)
    /\ read.cigartuples # << >>
    /\ Removed = last.a
    /\ ConsumesBoth(FromSide(before, last.b)[1])
    /\ \E j \in 2..(Len(before.cigartuples) - Len(read.cigartuples)) :
           QueryOnly(FromSide(before, last.b)[j])

\* the summary fields of two Coverage instances are the same numbers
SameSummary(self, other) ==
    /\ self.min = other.min
    /\ self.max = other.max
    /\ FracEq(self.mean, other.mean)
    /\ FracEq(self.median, other.median)
    /\ FracEq(self.std, other.std)
    /\ FracEq(self.detection, other.detection)
    /\ FracEq(self.mean_Q2Q3, other.mean_Q2Q3)

\* the step in which run, having looped over the reads, returns or raises
RunEnds == pc = "loop" /\ pc' # "loop" /\ fetched' = fetched

C25_Equivariant ==
    Classified =>
        \A p \in Permutations(1..Len(args.values)) :
            get_list_of_outliers(Pick(args.values, p), args.threshold,
                                 args.zeros_are_outliers, args.median)
                = Pick(mask, p)

====
